---------------------------- MODULE Spec2Model ----------------------------
(***************************************************************************)
(* A model of the K33 -> Koinly converter (package converter).             *)
(*                                                                         *)
(* A Go string is modelled as the sequence of its characters, so that the  *)
(* string functions the converter calls (strings.Contains, TrimPrefix,     *)
(* TrimSpace, time.Parse/Format, strconv.ParseFloat, fmt.Sprintf) are      *)
(* computed on the characters and not assumed.  The byte-order mark        *)
(* U+FEFF is the one-element string <<BOM>>.                               *)
(*                                                                         *)
(* Two specifications are given.  SpecMapper drives one Converter record   *)
(* by record through processK33Record, as the package's tests do, and      *)
(* keeps the history of the calls.  Spec gives one input file to Process   *)
(* and to ProcessDryRun, each on its own fresh Converter; the file is      *)
(* revealed line by line as the first of the two readers reaches it.       *)
(*                                                                         *)
(* What the model does not cover: the trade IDs enumerated are small       *)
(* enough for a float64 to hold them exactly; the input has no blank       *)
(* lines (encoding/csv skips them); and the output stream accepts every    *)
(* write, so the returns of "writing header" and "writing record" and a    *)
(* failure of the deferred Flush, whose error Process does not look at,    *)
(* do not occur.                                                           *)
(***************************************************************************)
EXTENDS Integers, Sequences, FiniteSets, TLC

VARIABLES
    header,     \* the input file's first line: a row, a line that cannot be
                \* read, or the end of an empty file
    input,      \* the data rows of the input file revealed so far
    inputEnded, \* TRUE once a reader has met end-of-input after `input`
    proc,       \* the Process run on its own fresh Converter
    dry,        \* the ProcessDryRun run on its own fresh Converter
    trades,     \* Converter.trades of the converter driven record by record
    calls       \* the processK33Record calls made on it, with their results

vars == <<header, input, inputEnded, proc, dry, trades, calls>>

---------------------------------------------------------------------------
(* String literals of the source.                                          *)

BOM == "BOM"

ColTypeStatus == <<"T","y","p","e","/","S","t","a","t","u","s">>
ColTradeID == <<"T","r","a","d","e","I","D">>
ColSide == <<"S","i","d","e">>
ColAmount == <<"A","m","o","u","n","t">>
ColTradeStatus == <<"T","r","a","d","e"," ","S","t","a","t","u","s">>
ColAsset == <<"A","s","s","e","t">>
ColTimestamp == <<"T","i","m","e","s","t","a","m","p"," ","(","U","T","C",")">>
ColDepositTxhash == <<"D","e","p","o","s","i","t","T","x","h","a","s","h">>
ColWithdrawalTxhash == <<"W","i","t","h","d","r","a","w","a","l","T","x","h","a","s","h">>

StrDeposit == <<"D","e","p","o","s","i","t">>
StrWithdrawal == <<"W","i","t","h","d","r","a","w","a","l">>
StrTrade == <<"T","r","a","d","e">>
StrBuy == <<"B","u","y">>
StrSell == <<"S","e","l","l">>
StrReject == <<"R","e","j","e","c","t">>
StrMinus == <<"-">>

DepositDescription == <<"D","e","p","o","s","i","t"," ","(","K","3","3",")">>
WithdrawalDescription == <<"W","i","t","h","d","r","a","w","a","l"," ","(","K","3","3",")">>
TradeDescriptionPrefix == <<"T","r","a","d","e"," ","(","K","3","3",")"," ","-"," ">>

koinlyHeader ==
    << <<"D","a","t","e">>,
       <<"S","e","n","t"," ","A","m","o","u","n","t">>,
       <<"S","e","n","t"," ","C","u","r","r","e","n","c","y">>,
       <<"R","e","c","e","i","v","e","d"," ","A","m","o","u","n","t">>,
       <<"R","e","c","e","i","v","e","d"," ","C","u","r","r","e","n","c","y">>,
       <<"F","e","e"," ","A","m","o","u","n","t">>,
       <<"F","e","e"," ","C","u","r","r","e","n","c","y">>,
       <<"N","e","t"," ","W","o","r","t","h"," ","A","m","o","u","n","t">>,
       <<"N","e","t"," ","W","o","r","t","h"," ","C","u","r","r","e","n","c","y">>,
       <<"L","a","b","e","l">>,
       <<"D","e","s","c","r","i","p","t","i","o","n">>,
       <<"T","x","H","a","s","h">> >>

BannerTitle == <<"K","3","3"," ","t","o"," ","K","o","i","n","l","y"," ","C","o","n","v","e","r","s","i","o","n"," ","(","D","r","y"," ","R","u","n",")">>
BannerRule == <<"=","=","=","=","=","=","=","=","=","=","=","=","=","=","=","=","=","=","=","=","=","=","=","=","=","=","=","=","=","=","=","=","=","=">>
SkippedPrefix == <<"S","K","I","P","P","E","D"," ","(","R","e","j","e","c","t","e","d",")",":"," ">>
SepBar == <<" ","|"," ">>
SepArrow == <<" ","-",">"," ">>
SepSpace == <<" ">>

---------------------------------------------------------------------------
(* The string functions of the Go library that the converter calls.        *)

HasPrefix(s, prefix) ==
    /\ Len(prefix) <= Len(s)
    /\ SubSeq(s, 1, Len(prefix)) = prefix

\* strings.TrimPrefix: s without the leading prefix, once; s if it has none.
TrimPrefix(s, prefix) ==
    IF HasPrefix(s, prefix) THEN SubSeq(s, Len(prefix) + 1, Len(s)) ELSE s

\* strings.Contains: substr occurs in s at some offset.
Contains(s, substr) ==
    \E i \in 0..(Len(s) - Len(substr)) :
        SubSeq(s, i + 1, i + Len(substr)) = substr

WhiteSpace == {" ", "\t", "\n", "\r"}

RECURSIVE TrimLeft(_)
TrimLeft(s) ==
    IF s # << >> /\ Head(s) \in WhiteSpace THEN TrimLeft(Tail(s)) ELSE s

RECURSIVE TrimRight(_)
TrimRight(s) ==
    IF s # << >> /\ s[Len(s)] \in WhiteSpace
    THEN TrimRight(SubSeq(s, 1, Len(s) - 1))
    ELSE s

\* strings.TrimSpace: s without its leading and trailing white space.
TrimSpace(s) == TrimRight(TrimLeft(s))

Digits == {"0", "1", "2", "3", "4", "5", "6", "7", "8", "9"}

DigitVal(c) ==
    CASE c = "0" -> 0 [] c = "1" -> 1 [] c = "2" -> 2 [] c = "3" -> 3
      [] c = "4" -> 4 [] c = "5" -> 5 [] c = "6" -> 6 [] c = "7" -> 7
      [] c = "8" -> 8 [] c = "9" -> 9

DigitChar(d) ==
    CASE d = 0 -> "0" [] d = 1 -> "1" [] d = 2 -> "2" [] d = 3 -> "3"
      [] d = 4 -> "4" [] d = 5 -> "5" [] d = 6 -> "6" [] d = 7 -> "7"
      [] d = 8 -> "8" [] d = 9 -> "9"

isDigit(s, i) == i <= Len(s) /\ s[i] \in Digits

AllDigits(s) == \A i \in 1..Len(s) : s[i] \in Digits

\* The value of a string of decimal digits (0 for the empty string).
RECURSIVE atoi(_)
atoi(s) ==
    IF s = << >> THEN 0
    ELSE 10 * atoi(SubSeq(s, 1, Len(s) - 1)) + DigitVal(s[Len(s)])

\* The decimal digits of a natural number.
RECURSIVE itoa(_)
itoa(n) ==
    IF n < 10 THEN <<DigitChar(n)>>
    ELSE Append(itoa(n \div 10), DigitChar(n % 10))

RECURSIVE Pow10(_)
Pow10(n) == IF n = 0 THEN 1 ELSE 10 * Pow10(n - 1)


---------------------------------------------------------------------------
(* convertTimestamp: time.Parse with the layout "2006/01/02 15:04:05" and  *)
(* Time.Format with "2006-01-02 15:04:05".                                 *)

isLeap(year) == year % 4 = 0 /\ (year % 100 # 0 \/ year % 400 = 0)

daysIn(month, year) ==
    IF month = 2 THEN (IF isLeap(year) THEN 29 ELSE 28)
    ELSE IF month \in {4, 6, 9, 11} THEN 30 ELSE 31

\* time.cutspace: s without its leading spaces.
RECURSIVE cutspace(_)
cutspace(s) ==
    IF s # << >> /\ Head(s) = " " THEN cutspace(Tail(s)) ELSE s

\* time.getnum: a leading number of two digits, or of one digit when the
\* layout element is not of fixed width; [ok, n, rest].
getnum(s, fixed) ==
    IF ~isDigit(s, 1) THEN [ok |-> FALSE, n |-> 0, rest |-> s]
    ELSE IF ~isDigit(s, 2)
         THEN [ok |-> ~fixed, n |-> DigitVal(s[1]), rest |-> Tail(s)]
         ELSE [ok |-> TRUE, n |-> 10 * DigitVal(s[1]) + DigitVal(s[2]),
               rest |-> SubSeq(s, 3, Len(s))]

\* The fractional second time.Parse accepts after the seconds although the
\* layout names none: a period or comma and the digits after it.
RECURSIVE cutDigits(_)
cutDigits(s) ==
    IF isDigit(s, 1) THEN cutDigits(Tail(s)) ELSE s

cutFraction(s) ==
    IF Len(s) >= 2 /\ s[1] \in {".", ","} /\ isDigit(s, 2)
    THEN cutDigits(Tail(s))
    ELSE s

\* The result of a time.Parse that returns an error.
TimeBad ==
    [ok |-> FALSE, year |-> 0, month |-> 0, day |-> 0,
     hour |-> 0, min |-> 0, sec |-> 0]

\* time.Parse after the seconds "05": an optional fraction, then the end of
\* the value, then the day checked against the month's length.
parseSecond(year, month, day, hour, min, se) ==
    IF ~se.ok \/ 60 <= se.n THEN TimeBad
    ELSE IF cutFraction(se.rest) # << >> THEN TimeBad
    ELSE IF day < 1 \/ day > daysIn(month, year) THEN TimeBad
    ELSE [ok |-> TRUE, year |-> year, month |-> month, day |-> day,
          hour |-> hour, min |-> min, sec |-> se.n]

\* ... after the minutes "04" and the ":" that follows them.
parseMinute(year, month, day, hour, mi) ==
    IF ~mi.ok \/ 60 <= mi.n \/ ~HasPrefix(mi.rest, <<":">>) THEN TimeBad
    ELSE parseSecond(year, month, day, hour, mi.n,
                     getnum(Tail(mi.rest), TRUE))

\* ... after the hour "15", of one or two digits, and its ":".
parseHour(year, month, day, ho) ==
    IF ~ho.ok \/ 24 <= ho.n \/ ~HasPrefix(ho.rest, <<":">>) THEN TimeBad
    ELSE parseMinute(year, month, day, ho.n, getnum(Tail(ho.rest), TRUE))

\* ... after the day "02" and the space of the layout, which matches one
\* or more spaces of the value.
parseDay(year, month, da) ==
    IF ~da.ok \/ (da.rest # << >> /\ Head(da.rest) # " ") THEN TimeBad
    ELSE parseHour(year, month, da.n, getnum(cutspace(da.rest), FALSE))

\* ... after the month "01" and its "/".
parseMonth(year, mo) ==
    IF ~mo.ok \/ mo.n <= 0 \/ 12 < mo.n \/ ~HasPrefix(mo.rest, <<"/">>)
    THEN TimeBad
    ELSE parseDay(year, mo.n, getnum(Tail(mo.rest), TRUE))

\* time.Parse, layout "2006/01/02 15:04:05": [ok, year, month, day, hour,
\* min, sec].
parseTime(value) ==
    IF Len(value) < 5 \/ ~AllDigits(SubSeq(value, 1, 4)) \/ value[5] # "/"
    THEN TimeBad
    ELSE parseMonth(atoi(SubSeq(value, 1, 4)),
                    getnum(SubSeq(value, 6, Len(value)), TRUE))

\* A number zero-padded to `width` digits.
RECURSIVE pad(_, _)
pad(n, width) ==
    IF Len(itoa(n)) >= width THEN itoa(n)
    ELSE <<"0">> \o pad(n, width - 1)

\* Time.Format, layout "2006-01-02 15:04:05".
formatTime(t) ==
    pad(t.year, 4) \o <<"-">> \o pad(t.month, 2) \o <<"-">> \o pad(t.day, 2)
      \o <<" ">> \o pad(t.hour, 2) \o <<":">> \o pad(t.min, 2)
      \o <<":">> \o pad(t.sec, 2)

\* convertTimestamp given the result t of time.Parse.
formatParsed(timestamp, t) == IF ~t.ok THEN timestamp ELSE formatTime(t)

convertTimestamp(timestamp) == formatParsed(timestamp, parseTime(timestamp))

\* Whether convertTimestamp logs "Warning: Could not parse timestamp".
timestampWarns(timestamp) == ~parseTime(timestamp).ok

---------------------------------------------------------------------------
(* formatTradeID: strconv.ParseFloat(s, 64) and fmt.Sprintf("%.0f", f).    *)
(* ParseFloat is modelled on the decimal syntax                            *)
(*   [+|-] digits [. digits] [(e|E) [+|-] digits]                          *)
(* for values a float64 holds exactly enough to round as the decimal does  *)
(* (the trade IDs enumerated below); "inf", "nan" and hexadecimal floats   *)
(* are not among them.                                                     *)

RECURSIVE digitsLen(_)
digitsLen(s) ==
    IF isDigit(s, 1) THEN 1 + digitsLen(Tail(s)) ELSE 0

\* The result of a ParseFloat that returns an error.
FloatBad == [ok |-> FALSE, neg |-> FALSE, mant |-> 0, exp |-> 0]

hasSign(s) == s # << >> /\ Head(s) \in {"+", "-"}

stripSign(s) == IF hasSign(s) THEN Tail(s) ELSE s

\* strconv.readFloat, the digits of the exponent: all of the rest.
readExpDigits(neg, mant, nf, eneg, s) ==
    IF s = << >> \/ ~AllDigits(s) THEN FloatBad
    ELSE [ok |-> TRUE, neg |-> neg, mant |-> mant,
          exp |-> (IF eneg THEN 0 - atoi(s) ELSE atoi(s)) - nf]

\* strconv.readFloat after the mantissa int.frac: the end, or an exponent.
readExponent(neg, int, frac, s) ==
    IF int \o frac = << >> THEN FloatBad
    ELSE IF s = << >>
         THEN [ok |-> TRUE, neg |-> neg, mant |-> atoi(int \o frac),
               exp |-> 0 - Len(frac)]
    ELSE IF Head(s) \notin {"e", "E"} THEN FloatBad
    ELSE readExpDigits(neg, atoi(int \o frac), Len(frac),
                       HasPrefix(Tail(s), <<"-">>), stripSign(Tail(s)))

\* strconv.readFloat after the integer digits: an optional "." and digits.
readFraction(neg, int, s) ==
    IF HasPrefix(s, <<".">>)
    THEN readExponent(neg, int, SubSeq(s, 2, digitsLen(Tail(s)) + 1),
                      SubSeq(s, digitsLen(Tail(s)) + 2, Len(s)))
    ELSE readExponent(neg, int, << >>, s)

\* strconv.readFloat after the sign: the integer digits.
readMantissa(neg, s) ==
    readFraction(neg, SubSeq(s, 1, digitsLen(s)),
                 SubSeq(s, digitsLen(s) + 1, Len(s)))

\* strconv.readFloat: [ok, neg, mant, exp] with value mant * 10^exp.
readFloat(s) == readMantissa(HasPrefix(s, <<"-">>), stripSign(s))

\* fmt.Sprintf("%.0f", f): f rounded to an integer, ties to even.
sprintf0f(f) ==
    LET q    == Pow10(0 - f.exp)
        quo  == f.mant \div q
        rem  == f.mant % q
        n    == IF f.exp >= 0 THEN f.mant * Pow10(f.exp)
                ELSE IF 2 * rem > q THEN quo + 1
                ELSE IF 2 * rem < q THEN quo
                ELSE IF quo % 2 = 0 THEN quo ELSE quo + 1
    IN  (IF f.neg THEN <<"-">> ELSE << >>) \o itoa(n)

\* formatTradeID given the result f of ParseFloat (lines 207-211).
formatFloat(tradeID, f) == IF f.ok THEN sprintf0f(f) ELSE tradeID

formatTradeID(tradeID) ==
    IF tradeID = << >> THEN << >>
    ELSE formatFloat(tradeID, readFloat(tradeID))

---------------------------------------------------------------------------
(* The records and the Classifier & Mapper.                                *)

\* A *K33Record that is nil, or that points to a record.
Nil == << >>
Ptr(k33) == <<k33>>
Deref(p) == p[1]

EmptyK33Record ==
    [TypeStatus |-> << >>, TradeID |-> << >>, Side |-> << >>,
     Amount |-> << >>, TradeStatus |-> << >>, Asset |-> << >>,
     Timestamp |-> << >>, DepositTxhash |-> << >>,
     WithdrawalTxhash |-> << >>]

EmptyKoinlyRecord ==
    [Date |-> << >>, SentAmount |-> << >>, SentCurrency |-> << >>,
     ReceivedAmount |-> << >>, ReceivedCurrency |-> << >>,
     FeeAmount |-> << >>, FeeCurrency |-> << >>,
     NetWorthAmount |-> << >>, NetWorthCurrency |-> << >>,
     Label |-> << >>, Description |-> << >>, TxHash |-> << >>]

\* New(): an empty trades map.
New == << >>

\* parseK33Record's switch on the cleaned column name (lines 176-195).
setColumn(k33, name, value) ==
    CASE name = ColTypeStatus -> [k33 EXCEPT !.TypeStatus = value]
      [] name = ColTradeID -> [k33 EXCEPT !.TradeID = formatTradeID(value)]
      [] name = ColSide -> [k33 EXCEPT !.Side = value]
      [] name = ColAmount -> [k33 EXCEPT !.Amount = value]
      [] name = ColTradeStatus -> [k33 EXCEPT !.TradeStatus = value]
      [] name = ColAsset -> [k33 EXCEPT !.Asset = value]
      [] name = ColTimestamp -> [k33 EXCEPT !.Timestamp = value]
      [] name = ColDepositTxhash -> [k33 EXCEPT !.DepositTxhash = value]
      [] name = ColWithdrawalTxhash -> [k33 EXCEPT !.WithdrawalTxhash = value]
      [] OTHER -> k33

\* One iteration of parseK33Record's loop over the header: the column name
\* cleaned of the byte-order mark and of white space, then the switch.
parseColumn(k33, col, value) ==
    setColumn(k33, TrimSpace(TrimPrefix(col, <<BOM>>)), value)

RECURSIVE parseColumns(_, _, _, _)
parseColumns(hdr, record, i, k33) ==
    IF i > Len(hdr) THEN k33
    ELSE IF i > Len(record) THEN parseColumns(hdr, record, i + 1, k33)
    ELSE parseColumns(hdr, record, i + 1,
                      parseColumn(k33, hdr[i], record[i]))

parseK33Record(hdr, record) == parseColumns(hdr, record, 1, EmptyK33Record)

createDepositRecord(k33, timestamp) ==
    [EmptyKoinlyRecord EXCEPT
        !.Date = timestamp,
        !.ReceivedAmount = TrimPrefix(k33.Amount, StrMinus),
        !.ReceivedCurrency = k33.Asset,
        !.Description = DepositDescription,
        !.TxHash = k33.DepositTxhash]

createWithdrawalRecord(k33, timestamp) ==
    [EmptyKoinlyRecord EXCEPT
        !.Date = timestamp,
        !.SentAmount = TrimPrefix(k33.Amount, StrMinus),
        !.SentCurrency = k33.Asset,
        !.Description = WithdrawalDescription,
        !.TxHash = k33.WithdrawalTxhash]

\* A faulty variant: sent and received drawn from the wrong legs.
createTradeRecordSwapped(trade) ==
    [EmptyKoinlyRecord EXCEPT
        !.Date = trade.Timestamp,
        !.SentAmount = TrimPrefix(Deref(trade.BuyLeg).Amount, StrMinus),
        !.SentCurrency = Deref(trade.BuyLeg).Asset,
        !.ReceivedAmount = TrimPrefix(Deref(trade.SellLeg).Amount, StrMinus),
        !.ReceivedCurrency = Deref(trade.SellLeg).Asset,
        !.Description = TradeDescriptionPrefix \o trade.TradeID]

createTradeRecord(trade) ==
    [EmptyKoinlyRecord EXCEPT
        !.Date = trade.Timestamp,
        !.SentAmount = TrimPrefix(Deref(trade.SellLeg).Amount, StrMinus),
        !.SentCurrency = Deref(trade.SellLeg).Asset,
        !.ReceivedAmount = TrimPrefix(Deref(trade.BuyLeg).Amount, StrMinus),
        !.ReceivedCurrency = Deref(trade.BuyLeg).Asset,
        !.Description = TradeDescriptionPrefix \o trade.TradeID]

\* A faulty variant: the pair's timestamp overwritten by every leg.
lookupOrCreateRefresh(tr, k33, timestamp) ==
    IF k33.TradeID \in DOMAIN tr
    THEN [tr[k33.TradeID] EXCEPT !.Timestamp = timestamp]
    ELSE [TradeID |-> k33.TradeID, Timestamp |-> timestamp,
          BuyLeg |-> Nil, SellLeg |-> Nil]

\* processTrade, lines 265-272: the pair of the trade ID, created with the
\* timestamp of this leg when the map has none.
lookupOrCreate(tr, k33, timestamp) ==
    IF k33.TradeID \in DOMAIN tr THEN tr[k33.TradeID]
    ELSE [TradeID |-> k33.TradeID, Timestamp |-> timestamp,
          BuyLeg |-> Nil, SellLeg |-> Nil]

\* processTrade, lines 274-279: the leg stored in the slot of its side.
storeLeg(trade, k33) ==
    IF k33.Side = StrBuy THEN [trade EXCEPT !.BuyLeg = Ptr(k33)]
    ELSE IF k33.Side = StrSell THEN [trade EXCEPT !.SellLeg = Ptr(k33)]
    ELSE trade

\* c.trades[id] = trade, and delete(c.trades, id).
mapSet(tr, id, trade) ==
    [k \in DOMAIN tr \cup {id} |-> IF k = id THEN trade ELSE tr[k]]

mapDelete(tr, id) == [k \in DOMAIN tr \ {id} |-> tr[k]]

\* A faulty variant: the completed pair left in the map.
completeOrKeepNoDelete(tr, id, trade) ==
    IF trade.BuyLeg # Nil /\ trade.SellLeg # Nil
    THEN [out |-> <<createTradeRecord(trade)>>,
          trades |-> mapSet(tr, id, trade)]
    ELSE [out |-> << >>, trades |-> mapSet(tr, id, trade)]

\* processTrade, lines 281-288: with both legs the record is created and
\* the pair deleted; otherwise the pair stays in the map.
completeOrKeep(tr, id, trade) ==
    IF trade.BuyLeg # Nil /\ trade.SellLeg # Nil
    THEN [out |-> <<createTradeRecord(trade)>>,
          trades |-> mapDelete(tr, id)]
    ELSE [out |-> << >>, trades |-> mapSet(tr, id, trade)]

\* processTrade: [out, trades], the records returned and the map after.
processTrade(tr, k33, timestamp) ==
    IF k33.TradeID = << >> THEN [out |-> << >>, trades |-> tr]
    ELSE completeOrKeep(tr, k33.TradeID,
                        storeLeg(lookupOrCreate(tr, k33, timestamp), k33))

\* The result of processK33Record: the records returned, the map after,
\* and whether convertTimestamp logged its warning.
Result(out, tr, warn) == [out |-> out, trades |-> tr, warn |-> warn]

withWarn(r, warn) == Result(r.out, r.trades, warn)

\* A faulty variant: "Withdrawal" tested before "Deposit".
classifyWithdrawalFirst(tr, k33, timestamp, warn) ==
    IF Contains(k33.TypeStatus, StrWithdrawal)
    THEN Result(<<createWithdrawalRecord(k33, timestamp)>>, tr, warn)
    ELSE IF Contains(k33.TypeStatus, StrDeposit)
    THEN Result(<<createDepositRecord(k33, timestamp)>>, tr, warn)
    ELSE IF k33.TypeStatus = StrTrade
    THEN withWarn(processTrade(tr, k33, timestamp), warn)
    ELSE Result(<< >>, tr, warn)

\* processK33Record's switch (lines 222-233).
classify(tr, k33, timestamp, warn) ==
    IF Contains(k33.TypeStatus, StrDeposit)
    THEN Result(<<createDepositRecord(k33, timestamp)>>, tr, warn)
    ELSE IF Contains(k33.TypeStatus, StrWithdrawal)
    THEN Result(<<createWithdrawalRecord(k33, timestamp)>>, tr, warn)
    ELSE IF k33.TypeStatus = StrTrade
    THEN withWarn(processTrade(tr, k33, timestamp), warn)
    ELSE Result(<< >>, tr, warn)

\* A faulty variant: the empty timestamp not skipped.
processK33RecordNoTimestampCheck(tr, k33) ==
    IF k33.TypeStatus = << >> THEN Result(<< >>, tr, FALSE)
    ELSE classify(tr, k33, convertTimestamp(k33.Timestamp),
                  timestampWarns(k33.Timestamp))

\* processK33Record: [out, trades, warn].
processK33Record(tr, k33) ==
    IF k33.TypeStatus = << >> \/ k33.Timestamp = << >>
    THEN Result(<< >>, tr, FALSE)
    ELSE classify(tr, k33, convertTimestamp(k33.Timestamp),
                  timestampWarns(k33.Timestamp))

---------------------------------------------------------------------------
(* The inputs enumerated.                                                  *)

T1 == <<"2","0","2","3","/","0","1","/","1","5"," ","1","0",":","3","0",":","4","5">>
T2 == <<"2","0","2","3","/","0","1","/","1","6"," ","9",":","0","5",":","0","7">>
TBad == <<"2","0","2","3","-","0","1","-","1","7"," ","0","8",":","0","0",":","0","0">>

IdA == <<"1","2","3","4","5">>
IdASci == <<"1",".","2","3","4","5","e","+","4">>
IdB == <<"7">>

LblDeposit == <<"D","e","p","o","s","i","t"," ","C","o","m","p","l","e","t","e">>
LblWithdrawal == <<"W","i","t","h","d","r","a","w","a","l"," ","C","o","m","p","l","e","t","e">>
LblBoth == <<"W","i","t","h","d","r","a","w","a","l"," ","o","f"," ","D","e","p","o","s","i","t">>
LblOther == <<"T","r","a","d","e"," ","F","e","e">>

USD == <<"U","S","D">>
BTC == <<"B","T","C">>
ETH == <<"E","T","H">>
Filled == <<"F","i","l","l","e","d">>
HashD == <<"0","x","a","b","c">>
HashW == <<"0","x","d","e","f">>
SideLower == <<"b","u","y">>
Amt1000 == <<"1","0","0","0">>
AmtNegHalf == <<"-","0",".","5">>
AmtNeg500 == <<"-","5","0","0">>
AmtNeg2 == <<"-","2">>
Amt3 == <<"3">>

\* A trade row; the amount and asset go with the trade ID and side, with
\* the sign on the Sell leg of IdA and on the Buy leg of IdB.
TradeRow(id, side, ts) ==
    [EmptyK33Record EXCEPT
        !.TypeStatus = StrTrade, !.TradeID = id, !.Side = side,
        !.TradeStatus = Filled, !.Timestamp = ts,
        !.Amount = IF side = StrBuy
                   THEN (IF id = IdB THEN AmtNeg2 ELSE Amt1000)
                   ELSE IF side = StrSell
                   THEN (IF id = IdB THEN Amt3 ELSE AmtNegHalf)
                   ELSE Amt3,
        !.Asset  = IF side = StrBuy THEN USD
                   ELSE IF side = StrSell THEN BTC ELSE ETH]

\* A row of another category, with both hashes set.
OtherRow(label, amount, ts) ==
    [EmptyK33Record EXCEPT
        !.TypeStatus = label, !.Amount = amount, !.Asset = USD,
        !.Timestamp = ts, !.DepositTxhash = HashD,
        !.WithdrawalTxhash = HashW]

\* The records processK33Record is called on: the legs of IdA with both
\* sides and two timestamps, one without timestamp, one with a side in
\* lower case; a leg of IdB; a trade row without ID; and rows of the other
\* labels, one of them with a timestamp that does not parse, one with no
\* label.
K33Inputs ==
    {TradeRow(IdA, side, ts) : side \in {StrBuy, StrSell}, ts \in {T1, T2}}
    \cup {TradeRow(IdA, StrSell, << >>), TradeRow(IdA, SideLower, T1),
          TradeRow(IdB, StrSell, T1), TradeRow(<< >>, StrBuy, T1)}
    \cup {OtherRow(label, Amt1000, T1) :
            label \in {LblDeposit, LblOther, << >>}}
    \cup {OtherRow(LblWithdrawal, AmtNeg500, T2),
          OtherRow(LblBoth, AmtNeg500, TBad)}

\* The longest sequence of processK33Record calls explored.
MaxCalls == 3

---------------------------------------------------------------------------
(* The input file as encoding/csv reads it.  An item of the file is a row  *)
(* of fields, or a line the reader cannot parse; the header is an item     *)
(* too, or is missing (an empty file).  The output stream is taken to      *)
(* accept what the csv writer hands it: writer.Write returns no error and  *)
(* the deferred Flush delivers the rows written.                           *)

RowItem(fields) == [kind |-> "row", fields |-> fields]
BadItem == [kind |-> "bad", fields |-> << >>]
EOFItem == [kind |-> "eof", fields |-> << >>]

\* The columns of the two headers enumerated, by the field each names
\* ("-" for a column the converter does not know).
StdColumns ==
    <<"TypeStatus", "TradeID", "Side", "Amount", "TradeStatus", "Asset",
      "-", "Timestamp", "-", "DepositTxhash", "WithdrawalTxhash">>

MovedColumns ==
    <<"Timestamp", "WithdrawalTxhash", "Asset", "TradeStatus", "Amount",
      "Side", "TradeID", "TypeStatus", "DepositTxhash">>

ColumnName(field) ==
    CASE field = "TypeStatus" -> ColTypeStatus
      [] field = "TradeID" -> ColTradeID
      [] field = "Side" -> ColSide
      [] field = "Amount" -> ColAmount
      [] field = "TradeStatus" -> ColTradeStatus
      [] field = "Asset" -> ColAsset
      [] field = "Timestamp" -> ColTimestamp
      [] field = "DepositTxhash" -> ColDepositTxhash
      [] field = "WithdrawalTxhash" -> ColWithdrawalTxhash
      [] OTHER -> <<"U","n","i","q","u","e","K","e","y">>

\* The standard export's header: a byte-order mark before the first name.
HeaderStd ==
    RowItem([i \in 1..Len(StdColumns) |->
                IF i = 1 THEN <<BOM>> \o ColumnName(StdColumns[i])
                ELSE ColumnName(StdColumns[i])])

\* A header with the columns in another order, padded with spaces, and
\* without the unknown columns.
HeaderMoved ==
    RowItem([i \in 1..Len(MovedColumns) |->
                <<" ">> \o ColumnName(MovedColumns[i]) \o <<" ">>])

Headers == {HeaderStd, HeaderMoved}

\* The fields of a data row, laid out in the order of the columns.
Layout(columns, k33) ==
    RowItem([i \in 1..Len(columns) |->
                IF columns[i] = "-" THEN <<"0">> ELSE k33[columns[i]]])

Rejected(k33) == [k33 EXCEPT !.TradeStatus = StrReject]

\* The data rows enumerated under the standard header, before layout: the
\* trade ID as the file holds it (IdASci is IdA in scientific notation).
RawRows ==
    { [OtherRow(LblDeposit, Amt1000, T1) EXCEPT !.WithdrawalTxhash = << >>],
      Rejected(OtherRow(LblDeposit, Amt1000, T1)),
      TradeRow(IdA, StrSell, T1),
      TradeRow(IdASci, StrBuy, T2),
      Rejected(TradeRow(IdA, StrBuy, T1)),
      TradeRow(IdA, SideLower, TBad) }

\* The data rows enumerated under the header with the columns moved.
MovedRows ==
    { [OtherRow(LblWithdrawal, AmtNeg500, T2) EXCEPT !.DepositTxhash = << >>],
      Rejected(OtherRow(LblWithdrawal, AmtNeg500, T2)),
      TradeRow(IdA, StrSell, T1),
      TradeRow(IdASci, StrBuy, T2),
      TradeRow(IdB, StrSell, T1) }

\* A row with fewer fields than either header.
ShortRow == RowItem(<<LblDeposit, << >>, << >>, Amt1000>>)

\* The items a data line of the file can be: a row of the header's width,
\* and a line the reader fails on: one that does not parse under the
\* standard header, a row with fewer fields under the other.
DataItemsStd == {Layout(StdColumns, k33) : k33 \in RawRows} \cup {BadItem}

DataItemsMoved ==
    {Layout(MovedColumns, k33) : k33 \in MovedRows} \cup {ShortRow}

DataItems(hdr) == IF hdr = HeaderStd THEN DataItemsStd ELSE DataItemsMoved

\* The most data lines of an input file explored.
MaxRows == 3

\* reader.Read() fails on a line it cannot parse and, FieldsPerRecord being
\* 0, on a row whose field count is not the first row's.
csvReadFails(hdr, item) ==
    \/ item.kind = "bad"
    \/ item.kind = "row" /\ Len(item.fields) # Len(hdr.fields)

\* What a reader that has read pos data lines can read next: the line the
\* file is known to hold there, or, past the lines revealed so far, a new
\* line or the end of the file.
CanRead(pos, item) ==
    IF pos < Len(input) THEN item = input[pos + 1]
    ELSE IF inputEnded THEN item = EOFItem
    ELSE \/ item = EOFItem
         \/ item \in DataItems(header) /\ Len(input) < MaxRows

Reveal(pos, item) ==
    /\ input' = IF pos < Len(input) \/ item = EOFItem THEN input
                ELSE Append(input, item)
    /\ inputEnded' = (inputEnded \/ (pos = Len(input) /\ item = EOFItem))

---------------------------------------------------------------------------
(* Process and ProcessDryRun.                                              *)

ProcStart ==
    [pc |-> "start", pos |-> 0, trades |-> New, koinlyRecords |-> << >>,
     buf |-> << >>, out |-> << >>, log |-> << >>, err |-> "nil",
     stored |-> {}, deleted |-> {}]

DryStart ==
    [pc |-> "start", pos |-> 0, trades |-> New, printed |-> << >>,
     log |-> << >>, err |-> "nil"]

TimestampWarning(k33) == [kind |-> "timestamp", arg |-> k33.Timestamp]
UnpairedWarning(id) == [kind |-> "unpaired", arg |-> id]

\* What an iteration of the loop did with a row: [skipped, k33, out,
\* trades, log].
mapped(k33Record, r) ==
    [skipped |-> FALSE, k33 |-> k33Record, out |-> r.out,
     trades |-> r.trades,
     log |-> IF r.warn THEN <<TimestampWarning(k33Record)>> ELSE << >>]

\* A faulty variant: the rejected rows handed to the Mapper like the others.
filterAndMapNoFilter(tr, k33Record) ==
    mapped(k33Record, processK33Record(tr, k33Record))

\* Lines 91-96 and 147-152: a rejected record is skipped, another is
\* handed to processK33Record.
filterAndMap(tr, k33Record) ==
    IF k33Record.TradeStatus = StrReject
    THEN [skipped |-> TRUE, k33 |-> k33Record, out |-> << >>,
          trades |-> tr, log |-> << >>]
    ELSE mapped(k33Record, processK33Record(tr, k33Record))

\* The loop body of Process and of ProcessDryRun on a row read (lines 89-96,
\* 145-152).
processRow(tr, hdr, record) ==
    filterAndMap(tr, parseK33Record(hdr, record))

\* A faulty variant: the new records put before the accumulated ones.
prependRecords(koinlyRecords, records) == records \o koinlyRecords

\* koinlyRecords = append(koinlyRecords, records...)
appendRecords(koinlyRecords, records) == koinlyRecords \o records

\* The row written for a record (lines 109-115).
koinlyRow(record) ==
    <<record.Date, record.SentAmount, record.SentCurrency,
      record.ReceivedAmount, record.ReceivedCurrency,
      record.FeeAmount, record.FeeCurrency,
      record.NetWorthAmount, record.NetWorthCurrency,
      record.Label, record.Description, record.TxHash>>

\* A faulty variant: a warning only for a pair with both legs.
unpairedTradesBothLegs(tr) ==
    {id \in DOMAIN tr : tr[id].BuyLeg # Nil /\ tr[id].SellLeg # Nil}

\* The trades the loop of lines 101-105 warns about.
unpairedTrades(tr) ==
    {id \in DOMAIN tr : tr[id].BuyLeg # Nil \/ tr[id].SellLeg # Nil}

\* The orders in which a range over a map can visit a set of keys.
Orders(S) ==
    {f \in [1..Cardinality(S) -> S] :
        \A i, j \in 1..Cardinality(S) : i # j => f[i] # f[j]}

\* A faulty variant: the amounts of the two directions exchanged in the line.
dryRunLineSwapped(koinlyRecord) ==
    koinlyRecord.Date \o SepBar
      \o koinlyRecord.ReceivedAmount \o SepSpace \o koinlyRecord.SentCurrency
      \o SepArrow
      \o koinlyRecord.SentAmount \o SepSpace \o koinlyRecord.ReceivedCurrency
      \o SepBar \o koinlyRecord.Description

\* fmt.Printf("%s | %s %s -> %s %s | %s\n", ...) of lines 154-158.
dryRunLine(koinlyRecord) ==
    koinlyRecord.Date \o SepBar
      \o koinlyRecord.SentAmount \o SepSpace \o koinlyRecord.SentCurrency
      \o SepArrow
      \o koinlyRecord.ReceivedAmount \o SepSpace
      \o koinlyRecord.ReceivedCurrency
      \o SepBar \o koinlyRecord.Description

Line(kind, text) == [kind |-> kind, text |-> text]

\* Process after an iteration of its loop with result r: the records
\* appended to koinlyRecords.  stored and deleted record the trade IDs that
\* have been in the map and those that have been deleted from it.
procAfterRow(r) ==
    [proc EXCEPT
        !.pos = @ + 1,
        !.trades = r.trades,
        !.koinlyRecords = appendRecords(@, r.out),
        !.log = @ \o r.log,
        !.stored = @ \cup DOMAIN r.trades,
        !.deleted = @ \cup (DOMAIN proc.trades \ DOMAIN r.trades)]

\* ProcessDryRun after an iteration of its loop with result r: the line of
\* a skipped row, or a line for each record.
dryAfterRow(r) ==
    [dry EXCEPT
        !.pos = @ + 1,
        !.trades = r.trades,
        !.log = @ \o r.log,
        !.printed = @ \o
            (IF r.skipped
             THEN <<Line("skipped", SkippedPrefix \o r.k33.TypeStatus)>>
             ELSE [i \in 1..Len(r.out) |->
                      Line("record", dryRunLine(r.out[i]))])]

\* The rows Process writes for its records (lines 108-119).
recordRows(koinlyRecords) ==
    [i \in 1..Len(koinlyRecords) |-> koinlyRow(koinlyRecords[i])]

\* A faulty variant: the records accumulated so far written before the error is
\* returned.
returnErrorAfterWriting(p, err) ==
    [p EXCEPT !.pc = "done", !.err = err,
              !.out = p.buf \o recordRows(p.koinlyRecords)]

\* return fmt.Errorf(...) in Process (lines 75, 86): the error goes to the
\* caller and the deferred Flush delivers what the writer holds.
returnError(p, err) ==
    [p EXCEPT !.pc = "done", !.err = err, !.out = p.buf]

\* Process, lines 57-78, on a file whose header row is read.
ProcessStart ==
    /\ proc.pc = "start"
    /\ header.kind = "row"
    /\ proc' = [proc EXCEPT !.pc = "loop", !.buf = <<koinlyHeader>>]
    /\ UNCHANGED <<header, input, inputEnded, dry, trades, calls>>

\* Process, lines 57-76, on a file whose header cannot be read: the error
\* is returned and the deferred Flush delivers the header written.
ProcessStartFails ==
    /\ proc.pc = "start"
    /\ header.kind # "row"
    /\ proc' = returnError([proc EXCEPT !.buf = <<koinlyHeader>>],
                            "reading header")
    /\ UNCHANGED <<header, input, inputEnded, dry, trades, calls>>

\* Process, lines 80-98: one iteration of the loop on a row read.
ProcessRow ==
    /\ proc.pc = "loop"
    /\ \E item \in DataItems(header) :
          /\ CanRead(proc.pos, item)
          /\ ~csvReadFails(header, item)
          /\ Reveal(proc.pos, item)
          /\ proc' = procAfterRow(processRow(proc.trades, header.fields,
                                              item.fields))
    /\ UNCHANGED <<header, dry, trades, calls>>

\* Process, lines 81-87: the read fails; the error is returned and the
\* deferred Flush delivers what was written, the header.
ProcessReadError ==
    /\ proc.pc = "loop"
    /\ \E item \in DataItems(header) :
          /\ CanRead(proc.pos, item)
          /\ csvReadFails(header, item)
          /\ Reveal(proc.pos, item)
    /\ proc' = returnError(proc, "reading record")
    /\ UNCHANGED <<header, dry, trades, calls>>

\* Process, lines 82-84 and 100-121: at the end of the input the unpaired
\* trades are warned about, in the order the range over the map takes, the
\* records are written, nil is returned and the deferred Flush delivers
\* the rows.
ProcessEnd ==
    /\ proc.pc = "loop"
    /\ CanRead(proc.pos, EOFItem)
    /\ Reveal(proc.pos, EOFItem)
    /\ \E order \in Orders(unpairedTrades(proc.trades)) :
          proc' = [proc EXCEPT
             !.pc = "done",
             !.log = @ \o [i \in 1..Len(order) |-> UnpairedWarning(order[i])],
             !.buf = @ \o recordRows(proc.koinlyRecords),
             !.out = proc.buf \o recordRows(proc.koinlyRecords)]
    /\ UNCHANGED <<header, dry, trades, calls>>

\* ProcessDryRun, lines 124-134, on a file whose header row is read.
DryRunStart ==
    /\ dry.pc = "start"
    /\ header.kind = "row"
    /\ dry' = [dry EXCEPT !.pc = "loop",
                          !.printed = <<Line("banner", BannerTitle),
                                        Line("banner", BannerRule)>>]
    /\ UNCHANGED <<header, input, inputEnded, proc, trades, calls>>

\* ProcessDryRun, lines 127-131: the header cannot be read.
DryRunStartFails ==
    /\ dry.pc = "start"
    /\ header.kind # "row"
    /\ dry' = [dry EXCEPT !.pc = "done", !.err = "reading header"]
    /\ UNCHANGED <<header, input, inputEnded, proc, trades, calls>>

\* ProcessDryRun, lines 136-160: one iteration of the loop on a row read.
DryRunRow ==
    /\ dry.pc = "loop"
    /\ \E item \in DataItems(header) :
          /\ CanRead(dry.pos, item)
          /\ ~csvReadFails(header, item)
          /\ Reveal(dry.pos, item)
          /\ dry' = dryAfterRow(processRow(dry.trades, header.fields,
                                            item.fields))
    /\ UNCHANGED <<header, proc, trades, calls>>

\* ProcessDryRun, lines 137-143: the read fails.
DryRunReadError ==
    /\ dry.pc = "loop"
    /\ \E item \in DataItems(header) :
          /\ CanRead(dry.pos, item)
          /\ csvReadFails(header, item)
          /\ Reveal(dry.pos, item)
    /\ dry' = [dry EXCEPT !.pc = "done", !.err = "reading record"]
    /\ UNCHANGED <<header, proc, trades, calls>>

\* ProcessDryRun, lines 138-140 and 162: the end of the input.
DryRunEnd ==
    /\ dry.pc = "loop"
    /\ CanRead(dry.pos, EOFItem)
    /\ Reveal(dry.pos, EOFItem)
    /\ dry' = [dry EXCEPT !.pc = "done"]
    /\ UNCHANGED <<header, proc, trades, calls>>

\* One input file, given to Process and to ProcessDryRun, each on a fresh
\* Converter as main does.
Init ==
    /\ header \in Headers \cup {EOFItem, BadItem}
    /\ input = << >>
    /\ inputEnded = FALSE
    /\ proc = ProcStart
    /\ dry = DryStart
    /\ trades = New
    /\ calls = << >>

Next ==
    \/ ProcessStart
    \/ ProcessStartFails
    \/ ProcessRow
    \/ ProcessReadError
    \/ ProcessEnd
    \/ DryRunStart
    \/ DryRunStartFails
    \/ DryRunRow
    \/ DryRunReadError
    \/ DryRunEnd

Spec == Init /\ [][Next]_vars

---------------------------------------------------------------------------
(* The converter driven record by record, as the package's tests do.       *)

MapperInit ==
    /\ trades = New
    /\ calls = << >>
    /\ header = EOFItem
    /\ input = << >>
    /\ inputEnded = FALSE
    /\ proc = ProcStart
    /\ dry = DryStart

\* conv.processK33Record(k33) on the converter.
CallProcessK33Record(k33) ==
    /\ Len(calls) < MaxCalls
    /\ LET r == processK33Record(trades, k33)
       IN  /\ trades' = r.trades
           /\ calls' = Append(calls, [k33 |-> k33, out |-> r.out,
                                      warn |-> r.warn, before |-> trades])
    /\ UNCHANGED <<header, input, inputEnded, proc, dry>>

MapperNext == \E k33 \in K33Inputs : CallProcessK33Record(k33)

SpecMapper == MapperInit /\ [][MapperNext]_vars

---------------------------------------------------------------------------
(* What the properties below say of a history of calls.                    *)

\* The store after call i.
After(i) == IF i = Len(calls) THEN trades ELSE calls[i + 1].before

\* An amount without its sign.
Unsigned(amount) ==
    IF amount # << >> /\ Head(amount) = "-" THEN Tail(amount) ELSE amount

\* Call i returned the combined record of trade ID id.
EmitsTrade(i, id) ==
    /\ calls[i].out # << >>
    /\ calls[i].out[1].Description = TradeDescriptionPrefix \o id

\* Call i is on a trade row of trade ID id.
IsTradeRow(i, id) ==
    /\ calls[i].k33.TypeStatus = StrTrade
    /\ calls[i].k33.TradeID = id

\* Call i is on a trade row that reaches Trade Pairing under key id.
ReachesPairing(i, id) ==
    /\ IsTradeRow(i, id)
    /\ id # << >>
    /\ calls[i].k33.Timestamp # << >>

NoFeeNetWorthLabel(r) ==
    /\ r.FeeAmount = << >> /\ r.FeeCurrency = << >>
    /\ r.NetWorthAmount = << >> /\ r.NetWorthCurrency = << >>
    /\ r.Label = << >>

\* Calls i < j are the Buy and the Sell leg of trade ID id, and no other
\* call carries that trade ID.
TwoLegs(i, j, id) ==
    /\ i < j
    /\ id # << >>
    /\ IsTradeRow(i, id) /\ IsTradeRow(j, id)
    /\ {calls[i].k33.Side, calls[j].k33.Side} = {StrBuy, StrSell}
    /\ \A k \in (1..Len(calls)) \ {i, j} : calls[k].k33.TradeID # id

\* Exactly one combined record for id, returned by call j, drawn from the
\* Sell leg (sent) and the Buy leg (received).
OneCombinedRecord(i, j, id) ==
    LET buy  == IF calls[i].k33.Side = StrBuy
                THEN calls[i].k33 ELSE calls[j].k33
        sell == IF calls[i].k33.Side = StrSell
                THEN calls[i].k33 ELSE calls[j].k33
    IN  /\ {k \in 1..Len(calls) : EmitsTrade(k, id)} = {j}
        /\ \A k \in 1..Len(calls) :
              calls[k].k33.TradeID = id => Len(calls[k].out) = (IF k = j THEN 1 ELSE 0)
        /\ calls[j].out[1].SentAmount = Unsigned(sell.Amount)
        /\ calls[j].out[1].SentCurrency = sell.Asset
        /\ calls[j].out[1].ReceivedAmount = Unsigned(buy.Amount)
        /\ calls[j].out[1].ReceivedCurrency = buy.Asset
        /\ calls[j].out[1].Description = TradeDescriptionPrefix \o id

\* C1, as stated: any two trade rows sharing a trade ID, one Buy and one
\* Sell, in either order and with rows of other trade IDs between them,
\* yield exactly one combined record, returned when the second is processed,
\* with sent = the Sell leg and received = the Buy leg.
C1_AnyTwoLegsPair ==
    \A i, j \in 1..Len(calls) :
        TwoLegs(i, j, calls[i].k33.TradeID) =>
            OneCombinedRecord(i, j, calls[i].k33.TradeID)

\* C1, amended: the same, for two trade rows that both carry a non-empty
\* timestamp (a trade row with an empty timestamp is dropped before
\* pairing).
C1_TwoTimestampedLegsPair ==
    \A i, j \in 1..Len(calls) :
        (/\ TwoLegs(i, j, calls[i].k33.TradeID)
         /\ calls[i].k33.Timestamp # << >>
         /\ calls[j].k33.Timestamp # << >>) =>
            OneCombinedRecord(i, j, calls[i].k33.TradeID)

\* C1 witness: the Sell leg arrives first, a row of another trade ID is
\* processed between the legs, and the Buy leg returns the record.
C1_Witness ==
    /\ Len(calls) = 3
    /\ TwoLegs(1, 3, IdA)
    /\ calls[1].k33.Side = StrSell
    /\ calls[1].k33.Timestamp # << >>
    /\ IsTradeRow(2, IdB)
    /\ EmitsTrade(3, IdA)

\* C5: the Mapper classifies by first match.  A label containing "Deposit"
\* yields one record with received = unsigned amount and asset, sent empty,
\* description "Deposit (K33)", hash = deposit hash; otherwise one
\* containing "Withdrawal" yields one record with sent = unsigned amount and
\* asset, received empty, description "Withdrawal (K33)", hash = withdrawal
\* hash; both leave the store unchanged and have empty fee, net-worth and
\* label; a record that is neither reaches Trade Pairing (returns a record
\* or changes the store) only if its label is exactly "Trade".
C5_FirstMatchClassification ==
    \A i \in 1..Len(calls) :
        LET k33 == calls[i].k33
            out == calls[i].out
        IN  (k33.TypeStatus # << >> /\ k33.Timestamp # << >>) =>
              IF Contains(k33.TypeStatus, StrDeposit)
              THEN /\ Len(out) = 1
                   /\ out[1].ReceivedAmount = Unsigned(k33.Amount)
                   /\ out[1].ReceivedCurrency = k33.Asset
                   /\ out[1].SentAmount = << >>
                   /\ out[1].SentCurrency = << >>
                   /\ out[1].Description = DepositDescription
                   /\ out[1].TxHash = k33.DepositTxhash
                   /\ NoFeeNetWorthLabel(out[1])
                   /\ After(i) = calls[i].before
              ELSE IF Contains(k33.TypeStatus, StrWithdrawal)
              THEN /\ Len(out) = 1
                   /\ out[1].SentAmount = Unsigned(k33.Amount)
                   /\ out[1].SentCurrency = k33.Asset
                   /\ out[1].ReceivedAmount = << >>
                   /\ out[1].ReceivedCurrency = << >>
                   /\ out[1].Description = WithdrawalDescription
                   /\ out[1].TxHash = k33.WithdrawalTxhash
                   /\ NoFeeNetWorthLabel(out[1])
                   /\ After(i) = calls[i].before
              ELSE (out # << >> \/ After(i) # calls[i].before)
                      => k33.TypeStatus = StrTrade

\* C5 witness: a label containing both words was mapped as a deposit while
\* a pair was pending, a withdrawal was mapped too, and a trade leg changed
\* the store.
C5_Witness ==
    /\ Len(calls) = 3
    /\ calls[1].k33.TypeStatus = StrTrade /\ After(1) # calls[1].before
    /\ calls[2].k33.TypeStatus = LblBoth /\ calls[2].k33.Amount = AmtNeg500
    /\ Len(calls[2].out) = 1
    /\ calls[2].out[1].Description = DepositDescription
    /\ calls[3].k33.TypeStatus = LblWithdrawal
    /\ Len(calls[3].out) = 1

\* The records the Mapper skips silently.
Skipped(k33) ==
    \/ k33.TypeStatus = << >>
    \/ k33.Timestamp = << >>
    \/ /\ ~Contains(k33.TypeStatus, StrDeposit)
       /\ ~Contains(k33.TypeStatus, StrWithdrawal)
       /\ k33.TypeStatus # StrTrade
    \/ k33.TypeStatus = StrTrade /\ k33.TradeID = << >>

\* C8: a silently skipped record (empty label, empty timestamp, a label that
\* neither contains "Deposit" or "Withdrawal" nor equals "Trade", a "Trade"
\* record with an empty trade ID) returns no record and leaves the store as
\* it was, whatever the store held.
C8_SkippedRecordsChangeNothing ==
    \A i \in 1..Len(calls) :
        Skipped(calls[i].k33) =>
            /\ calls[i].out = << >>
            /\ After(i) = calls[i].before

\* C8 witness: with a pair pending for IdA, a "Trade" row of IdA with a side
\* and an empty timestamp was skipped, and so was a trade row without ID.
C8_Witness ==
    /\ Len(calls) = 3
    /\ IdA \in DOMAIN calls[2].before
    /\ IsTradeRow(2, IdA)
    /\ calls[2].k33.Side = StrSell
    /\ calls[2].k33.Timestamp = << >>
    /\ IsTradeRow(3, << >>)
    /\ trades = calls[2].before

\* Call i is the first leg of id to reach pairing since the pair of id was
\* last absent from the store, as seen after call n >= i.
FirstLegSinceAbsent(i, n, id) ==
    /\ i <= n
    /\ ReachesPairing(i, id)
    /\ id \notin DOMAIN calls[i].before
    /\ \A k \in (i + 1)..n : id \in DOMAIN calls[k].before

\* C9: the date of a combined trade record is the timestamp captured when
\* the pair was created: the normalized timestamp of the first leg of that
\* trade ID seen since the pair was last absent from the store.  Later legs
\* never change the captured timestamp, so the date is the first-arrived
\* leg's and not the completing leg's.
C9_DateIsFirstLegTimestamp ==
    /\ \A j \in 1..Len(calls) :
          LET id == calls[j].k33.TradeID
          IN  (ReachesPairing(j, id) /\ calls[j].out # << >>) =>
                \E i \in 1..(j - 1) :
                    /\ FirstLegSinceAbsent(i, j, id)
                    /\ calls[j].out[1].Date =
                          convertTimestamp(calls[i].k33.Timestamp)
    /\ \A id \in DOMAIN trades :
          \E i \in 1..Len(calls) :
              /\ FirstLegSinceAbsent(i, Len(calls), id)
              /\ \A k \in i..Len(calls) :
                    After(k)[id].Timestamp =
                        convertTimestamp(calls[i].k33.Timestamp)

\* C9 witness: a leg of IdA with timestamp T2 created the pair, and the two
\* legs that completed it both carried T1; the record has T2's date.
C9_Witness ==
    /\ Len(calls) = 3
    /\ ReachesPairing(1, IdA) /\ calls[1].k33.Timestamp = T2
    /\ ReachesPairing(2, IdA) /\ calls[2].k33.Timestamp = T1
    /\ ReachesPairing(3, IdA) /\ calls[3].k33.Timestamp = T1
    /\ EmitsTrade(3, IdA)
    /\ calls[3].out[1].Date = convertTimestamp(T2)
    /\ convertTimestamp(T2) # convertTimestamp(T1)

\* The pair a single leg creates in a store that holds none for its ID.
FreshPair(k33) ==
    [TradeID |-> k33.TradeID,
     Timestamp |-> convertTimestamp(k33.Timestamp),
     BuyLeg |-> IF k33.Side = StrBuy THEN <<k33>> ELSE << >>,
     SellLeg |-> IF k33.Side = StrSell THEN <<k33>> ELSE << >>]

\* C10: after any sequence of rows no pair in the store has both slots
\* occupied and every pair is stored under its own trade ID; the call that
\* fills the second slot returns the combined record and deletes the pair,
\* so a completed trade ID is absent from the store and the next leg with
\* that trade ID starts a new pair instead of completing the old one.
C10_NoCompletePairStored ==
    /\ \A id \in DOMAIN trades :
          /\ trades[id].TradeID = id
          /\ ~(trades[id].BuyLeg # Nil /\ trades[id].SellLeg # Nil)
    /\ \A i \in 1..Len(calls) :
          LET id == calls[i].k33.TradeID
          IN  (IsTradeRow(i, id) /\ calls[i].out # << >>) =>
                /\ id \in DOMAIN calls[i].before
                /\ id \notin DOMAIN After(i)
                /\ \A j \in (i + 1)..Len(calls) :
                      (/\ ReachesPairing(j, id)
                       /\ \A k \in (i + 1)..(j - 1) : ~ReachesPairing(k, id))
                      => /\ calls[j].out = << >>
                         /\ After(j)[id] = FreshPair(calls[j].k33)

\* C10 witness: IdA completed, and a third leg of IdA is pending alone.
C10_Witness ==
    /\ Len(calls) = 3
    /\ EmitsTrade(2, IdA)
    /\ ReachesPairing(3, IdA)
    /\ calls[3].out = << >>
    /\ IdA \in DOMAIN trades
    /\ trades[IdA].SellLeg # Nil /\ trades[IdA].BuyLeg = Nil

---------------------------------------------------------------------------
(* What the properties below say of a run of Process or ProcessDryRun.     *)

\* seq without its element i.
Remove(seq, i) == SubSeq(seq, 1, i - 1) \o SubSeq(seq, i + 1, Len(seq))

\* The record parseK33Record gives for data row i of the input.
K33(i) == parseK33Record(header.fields, input[i].fields)

\* The records parseK33Record gives for the first n data rows.
RECURSIVE Parsed(_)
Parsed(n) == IF n = 0 THEN << >> ELSE Append(Parsed(n - 1), K33(n))

\* The loop body of lines 91-97 repeated from a fresh Converter over the
\* parsed records: the sequence of [out, trades] before the first record
\* and after each record.
RECURSIVE RunTrace(_)
RunTrace(records) ==
    IF records = << >> THEN << [out |-> << >>, trades |-> New] >>
    ELSE LET trace  == RunTrace(SubSeq(records, 1, Len(records) - 1))
             before == trace[Len(trace)]
             r      == filterAndMap(before.trades, records[Len(records)])
         IN  Append(trace, [out |-> before.out \o r.out,
                            trades |-> r.trades])

\* The records and the store it arrives at: [out, trades].
RunRecords(records) == RunTrace(records)[Len(records) + 1]

\* The texts of the record lines a dry run has printed, in order.
RecordLines ==
    LET recs == SelectSeq(dry.printed, LAMBDA l : l.kind = "record")
    IN  [i \in 1..Len(recs) |-> recs[i].text]

\* Process has returned after meeting the end of the whole input.
ProcessReachedEnd ==
    /\ proc.pc = "done"
    /\ header.kind = "row"
    /\ inputEnded
    /\ proc.pos = Len(input)

DryRunReachedEnd ==
    /\ dry.pc = "done"
    /\ header.kind = "row"
    /\ inputEnded
    /\ dry.pos = Len(input)

\* The number of "Unpaired trade" warnings that name id.
UnpairedWarnings(id) ==
    Cardinality({i \in 1..Len(proc.log) : proc.log[i] = UnpairedWarning(id)})

\* An output row carries trade ID id.
CarriesTradeID(row, id) == row[11] = TradeDescriptionPrefix \o id

\* The trade IDs that reached the store during the run and never completed.
NeverCompleted == proc.stored \ proc.deleted

\* C2, as stated: at the end of a Process run, for every trade ID that
\* reached the store and never completed, no output record carries that
\* trade ID and exactly one "Unpaired trade" warning names it; the run
\* returns success.
C2_EveryPendingTradeWarned ==
    ProcessReachedEnd =>
        /\ proc.err = "nil"
        /\ \A id \in NeverCompleted :
              /\ \A k \in 1..Len(proc.out) : ~CarriesTradeID(proc.out[k], id)
              /\ UnpairedWarnings(id) = 1

\* C2, amended: the warning is for the pairs that hold a leg.  At the end of
\* a Process run, for every trade ID that reached the store and never
\* completed, no output record carries that trade ID, and exactly one
\* "Unpaired trade" warning names it if its pair has an occupied slot, none
\* if its pair has no occupied slot (its rows had a side other than "Buy"
\* and "Sell"); the run returns success.
C2_PendingTradeWithLegWarned ==
    ProcessReachedEnd =>
        /\ proc.err = "nil"
        /\ NeverCompleted \subseteq DOMAIN proc.trades
        /\ \A id \in NeverCompleted :
              /\ \A k \in 1..Len(proc.out) : ~CarriesTradeID(proc.out[k], id)
              /\ UnpairedWarnings(id) =
                    IF \/ proc.trades[id].BuyLeg # Nil
                       \/ proc.trades[id].SellLeg # Nil
                    THEN 1 ELSE 0

\* C2 witness: one trade completed and was written, another is pending with
\* one leg and was warned about, and the run succeeded.
C2_Witness ==
    /\ ProcessReachedEnd
    /\ proc.err = "nil"
    /\ Len(proc.out) = 2
    /\ CarriesTradeID(proc.out[2], IdA)
    /\ IdB \in NeverCompleted
    /\ proc.trades[IdB].SellLeg # Nil
    /\ UnpairedWarnings(IdB) = 1

\* No leg in the store is a rejected row.
NoRejectedLeg(tr) ==
    \A id \in DOMAIN tr :
        /\ tr[id].BuyLeg # Nil => Deref(tr[id].BuyLeg).TradeStatus # StrReject
        /\ tr[id].SellLeg # Nil =>
              Deref(tr[id].SellLeg).TradeStatus # StrReject

\* The records with any one rejected record taken out give the same output
\* records and the same store; run is RunRecords(records).
AsIfRemoved(records, run) ==
    \A i \in 1..Len(records) :
        records[i].TradeStatus = StrReject =>
            run = RunRecords(Remove(records, i))

\* C3: a row whose trade status is exactly "Reject" never contributes to
\* output and never reaches the Mapper: the output records and the store
\* that the rows read give are the same with any rejected row removed from
\* them, whatever the category of the row; at every point of a Process run
\* and of a dry run, the records accumulated (written, at the end) or
\* rendered and the store are those the rows read give; no slot of a stored
\* pair holds a rejected leg.
C3_RejectedRowsAsIfRemoved ==
    header.kind = "row" =>
        LET far     == IF proc.pos < dry.pos THEN dry.pos ELSE proc.pos
            records == Parsed(far)
            trace   == RunTrace(records)
            procRun == trace[proc.pos + 1]
            dryRun  == trace[dry.pos + 1]
        IN  /\ AsIfRemoved(records, trace[far + 1])
            /\ proc.koinlyRecords = procRun.out
            /\ proc.trades = procRun.trades
            /\ ProcessReachedEnd =>
                  proc.out = <<koinlyHeader>> \o recordRows(procRun.out)
            /\ dry.trades = dryRun.trades
            /\ RecordLines =
                  [i \in 1..Len(dryRun.out) |-> dryRunLine(dryRun.out[i])]
            /\ NoRejectedLeg(proc.trades)
            /\ NoRejectedLeg(dry.trades)

\* C3 witness: a rejected Buy leg of IdA was read between the Sell leg of
\* IdA and a later Buy leg; the later leg completed the pair, nothing is
\* left in the store, and the dry run printed the rejected row as skipped.
C3_Witness ==
    /\ ProcessReachedEnd
    /\ Len(input) = 3
    /\ K33(2).TradeStatus = StrReject
    /\ K33(2).TypeStatus = StrTrade
    /\ K33(2).Side = StrBuy
    /\ K33(1).Side = StrSell
    /\ Len(proc.out) = 2
    /\ CarriesTradeID(proc.out[2], IdA)
    /\ proc.out[2][1] = convertTimestamp(T1)
    /\ proc.trades = New
    /\ DryRunReachedEnd
    /\ \E k \in 1..Len(dry.printed) : dry.printed[k].kind = "skipped"

\* Record i is a row the Mapper maps as a deposit or as a withdrawal.
IsTransfer(records, i) ==
    /\ records[i].TradeStatus # StrReject
    /\ records[i].TypeStatus # << >> /\ records[i].Timestamp # << >>
    /\ \/ Contains(records[i].TypeStatus, StrDeposit)
       \/ Contains(records[i].TypeStatus, StrWithdrawal)

\* Record j is a leg of the trade of record i, on another side.
IsOtherLeg(records, j, i) ==
    /\ records[j].TradeStatus # StrReject
    /\ records[j].TypeStatus = StrTrade
    /\ records[j].TradeID = records[i].TradeID
    /\ records[j].Side \in {StrBuy, StrSell} \ {records[i].Side}

\* C4: on a successful Process run the output is the 12-column header
\* followed by one 12-field row per produced record, in the order of the
\* input rows that produced them: the record of a deposit or withdrawal at
\* the position of its own row, the record of a completed trade at the
\* position of its second leg.
C4_OutputInAccumulationOrder ==
    (proc.pc = "done" /\ proc.err = "nil") =>
        LET records == Parsed(proc.pos)
            trace   == RunTrace(records)
        IN  /\ proc.pos = Len(input)
            /\ Len(proc.out) = 1 + Len(trace[Len(records) + 1].out)
            /\ proc.out[1] = koinlyHeader
            /\ \A k \in 1..Len(proc.out) : Len(proc.out[k]) = 12
            /\ \A i \in 1..Len(records) :
                  LET at   == 1 + Len(trace[i].out)
                      step == SubSeq(trace[i + 1].out, at,
                                     Len(trace[i + 1].out))
                  IN  /\ Len(step) <= 1
                      /\ \A n \in 1..Len(step) :
                            proc.out[at + n] = koinlyRow(step[n])
                      /\ IsTransfer(records, i) =>
                            /\ Len(step) = 1
                            /\ step[1].Description \in
                                  {DepositDescription, WithdrawalDescription}
                      /\ (step # << >> /\ ~IsTransfer(records, i)) =>
                            /\ records[i].TypeStatus = StrTrade
                            /\ CarriesTradeID(proc.out[at + 1],
                                              records[i].TradeID)
                            /\ \E j \in 1..(i - 1) :
                                  IsOtherLeg(records, j, i)

\* C4 witness: the Sell leg of IdA, then a deposit, then the Buy leg; the
\* deposit's row is written before the trade's.
C4_Witness ==
    /\ proc.pc = "done" /\ proc.err = "nil"
    /\ Len(input) = 3
    /\ K33(1).TypeStatus = StrTrade
    /\ K33(2).TypeStatus = LblDeposit
    /\ Len(proc.out) = 3
    /\ proc.out[2][11] = DepositDescription
    /\ CarriesTradeID(proc.out[3], IdA)

\* The line of an output row: its date, sent, received and description
\* values.
RenderRow(row) ==
    row[1] \o <<" ", "|", " ">> \o row[2] \o <<" ">> \o row[3]
      \o <<" ", "-", ">", " ">> \o row[4] \o <<" ">> \o row[5]
      \o <<" ", "|", " ">> \o row[11]

\* C6: for an input read without error, the dry run renders exactly the
\* sequence of records that Process writes (same date, sent, received and
\* description values, same order), and both leave the store in the same
\* final state.
C6_DryRunRendersWhatProcessWrites ==
    (/\ proc.pc = "done" /\ proc.err = "nil"
     /\ dry.pc = "done" /\ dry.err = "nil") =>
        /\ RecordLines =
              [i \in 1..(Len(proc.out) - 1) |-> RenderRow(proc.out[i + 1])]
        /\ dry.trades = proc.trades

\* C6 witness: both runs ended on an input of a deposit, a rejected row and
\* one trade leg: one record written and rendered, the rejected row printed
\* as skipped by the dry run only, one pair left in both stores.
C6_Witness ==
    /\ proc.pc = "done" /\ proc.err = "nil"
    /\ dry.pc = "done" /\ dry.err = "nil"
    /\ Len(input) = 3
    /\ Len(proc.out) = 2
    /\ proc.out[2][11] = DepositDescription
    /\ Len(RecordLines) = 1
    /\ \E k \in 1..Len(dry.printed) : dry.printed[k].kind = "skipped"
    /\ DOMAIN proc.trades = {IdA}

\* The positions of the data lines of the input that cannot be read.
FailingLines == {i \in 1..Len(input) : csvReadFails(header, input[i])}

\* C7: a structural read failure is fatal and leaves no partial record
\* output.  When the header or a data row cannot be read, Process stops at
\* that row and returns an error, and the output holds the header only,
\* whatever records the rows before had produced; a record row is in the
\* output only when the whole input was read.
C7_ReadFailureWritesNoRecord ==
    /\ \A i \in FailingLines : proc.pos < i
    /\ (proc.pc = "done" /\ header.kind = "bad") =>
          /\ proc.err = "reading header"
          /\ proc.out = <<koinlyHeader>>
    /\ (proc.pc = "done" /\ proc.pos + 1 \in FailingLines) =>
          /\ proc.err = "reading record"
          /\ proc.out = <<koinlyHeader>>
    /\ proc.pc # "done" => proc.out = << >>
    /\ Len(proc.out) > 1 =>
          /\ proc.err = "nil"
          /\ ProcessReachedEnd
          /\ FailingLines = {}

\* C7 witness: two rows were read and produced a record, the third line
\* could not be read; the run returned the error and wrote the header only.
C7_Witness ==
    /\ proc.pc = "done"
    /\ proc.err = "reading record"
    /\ proc.pos = 2
    /\ 3 \in FailingLines
    /\ Len(proc.koinlyRecords) = 2
    /\ proc.out = <<koinlyHeader>>

=============================================================================
